---- MODULE Spec2Model ----
(***************************************************************************)
(* Model of speedtest-exporter (src/main.py): the /metrics handler          *)
(* record_speedtest, the probe runner run_speedtest, the six Prometheus     *)
(* gauges and the module-level cache deadline speedtest_cache_timeout.      *)
(*                                                                          *)
(* The exporter is served by waitress, which handles requests on a pool of  *)
(* worker threads; every thread runs record_speedtest on the same module    *)
(* globals without any lock.  Each line of the handler that reads or writes *)
(* a global is one step of the model.                                       *)
(***************************************************************************)
EXTENDS Integers, Sequences, FiniteSets, TLC

\* ------------------------------------------------------------------ bounds
NumThreads == 2        \* concurrent request handlers (waitress worker threads)
MaxTime == 3           \* the wall clock runs over 0..MaxTime
MaxRequests == 3       \* scrape requests accepted over a run

Threads == 1..NumThreads

\* Values of SPEEDTEST_CACHE_TIMEOUT tried (seconds): negative, zero, positive.
CacheTimeouts == {-1, 0, 1}

VARIABLES
  clock,                    \* time.time()
  speedtest_cache_timeout,  \* module global, main.py:34
  cache_timeout,            \* int(os.getenv("SPEEDTEST_CACHE_TIMEOUT", 900))
  server, jitter, ping, download_speed, upload_speed, status,   \* the six gauges
  pc,                       \* per request handler: position in record_speedtest
  proc,                     \* per handler: how the speedtest subprocess ended
  r,                        \* per handler: the tuple run_speedtest returned
  seen,                     \* per handler: refresh generation it found expired, -1 if served from cache
  epoch,                    \* number of writes to speedtest_cache_timeout so far
  requests,                 \* scrape requests received so far
  probes,                   \* run_speedtest invocations so far
  failedAt,                 \* time the latest run_speedtest ended, if it failed; else -1
  checkedAt                 \* per handler: time.time() read at line 109 of a refresh in progress, else -1

gauges == <<server, jitter, ping, download_speed, upload_speed, status>>
vars == <<clock, speedtest_cache_timeout, cache_timeout, server, jitter, ping,
          download_speed, upload_speed, status, pc, proc, r, seen, epoch,
          requests, probes, failedAt, checkedAt>>

\* ------------------------------------------------------- tool output (JSON)
\* The captured stdout of the speedtest CLI, as json.loads sees it.
\*   valid   : is_json(output)
\*   kind    : Python type of json.loads(output)
\*   members : the strings k for which `k in data` is true (keys of a dict,
\*             string elements of a list, substrings of a str)
\*   type    : data["type"] when present
\*   res     : <<server.id, ping.jitter, ping.latency, download.bandwidth,
\*               upload.bandwidth>> of a result event
Out(valid, kind, members, type, res) ==
  [valid |-> valid, kind |-> kind, members |-> members, type |-> type, res |-> res]

ResultKeys == {"type", "timestamp", "ping", "download", "upload", "server"}

NotJsonText  == Out(FALSE, "none", {}, "", <<>>)
ErrorObj     == Out(TRUE, "dict", {"error"}, "", <<>>)
LogEvent     == Out(TRUE, "dict", {"type", "timestamp", "message"}, "log", <<>>)
LogNoStamp   == Out(TRUE, "dict", {"type", "message"}, "log", <<>>)
ResultA      == Out(TRUE, "dict", ResultKeys, "result", <<1, 1, 2, 3, 1>>)
ResultB      == Out(TRUE, "dict", ResultKeys, "result", <<2, 0, 1, 2, 2>>)
ResultNoPing == Out(TRUE, "dict", ResultKeys \ {"ping"}, "result", <<1, 1, 2, 3, 1>>)
OtherEvent   == Out(TRUE, "dict", {"type", "timestamp"}, "ping", <<>>)
EmptyList    == Out(TRUE, "list", {}, "", <<>>)
ErrorStr     == Out(TRUE, "str", {"error"}, "", <<>>)
JsonNumber   == Out(TRUE, "int", {}, "", <<>>)
JsonNull     == Out(TRUE, "NoneType", {}, "", <<>>)

Outputs == {NotJsonText, ErrorObj, LogEvent, LogNoStamp, ResultA, ResultB,
            ResultNoPing, OtherEvent, EmptyList, ErrorStr, JsonNumber, JsonNull}

\* How subprocess.check_output ended: exit status 0, CalledProcessError
\* (non-zero exit, output captured), or TimeoutExpired.
NoProc == [how |-> "none", out |-> NotJsonText]
Procs == {[how |-> h, out |-> o] : h \in {"exit0", "nonzero"}, o \in Outputs}
           \cup {[how |-> "timeout", out |-> NotJsonText]}

\* ------------------------------------------------------------ pure helpers
\* The conversion written as a division.
BytesToBitsDivided(bytes_per_sec) == bytes_per_sec \div 8

bytes_to_bits(bytes_per_sec) == bytes_per_sec * 8

is_json(json_data) == json_data.valid

\* `key in data` of Python: defined for dict, list and str only.
Iterable(data) == data.kind \in {"dict", "list", "str"}
In(key, data) == key \in data.members

Zero == <<0, 0, 0, 0, 0, 0>>
Returned(t) == [raised |-> FALSE, exc |-> "", value |-> t]
Raised(e) == [raised |-> TRUE, exc |-> e, value |-> Zero]

\* main.py:77-98, the parse of an output for which is_json holds or not.
ParseOutput(output) ==
  IF ~is_json(output) THEN Returned(Zero)                       \* line 97-98
  ELSE LET data == output IN
    IF ~Iterable(data) THEN Raised("TypeError")                 \* line 80
    ELSE IF In("error", data) THEN
      IF data.kind = "dict" THEN Returned(Zero)                 \* line 81-83
      ELSE Raised("TypeError")                                  \* line 82
    ELSE IF In("type", data) THEN
      IF data.kind # "dict" THEN Raised("TypeError")            \* line 86
      ELSE IF data.type = "log" THEN
        IF {"timestamp", "message"} \subseteq data.members
        THEN Returned(Zero)                                     \* line 87, 97-98
        ELSE Raised("KeyError")                                 \* line 87
      ELSE IF data.type = "result" THEN
        IF {"server", "ping", "download", "upload"} \subseteq data.members
        THEN Returned(<<data.res[1], data.res[2], data.res[3],
                        bytes_to_bits(data.res[4]),
                        bytes_to_bits(data.res[5]), 1>>)        \* line 90-95
        ELSE Raised("KeyError")                                 \* line 90-94
      ELSE Returned(Zero)                                       \* line 97-98
    ELSE Returned(Zero)                                         \* line 97-98

\* run_speedtest that reports every non-zero exit as a failure, without
\* parsing the captured output.
RunSpeedtestFailOnExit(p) ==
  IF p.how = "timeout" THEN Raised("TimeoutExpired")
  ELSE IF p.how = "nonzero" THEN Returned(Zero)
  ELSE ParseOutput(p.out)

\* main.py:68-98: what run_speedtest does once the subprocess has ended.
run_speedtest(p) ==
  IF p.how = "timeout" THEN Raised("TimeoutExpired")            \* line 69, not caught
  ELSE IF p.how = "nonzero" /\ ~is_json(p.out) THEN Returned(Zero)  \* line 71-75
  ELSE ParseOutput(p.out)

\* The expiry test written with != in place of >.
ExpiredNotEqual(now, deadline) == now # deadline

\* The expiry test of main.py:109.
Expired(now, deadline) == now > deadline

\* ------------------------------------------------------------------- Init
Init ==
  /\ clock = 0
  /\ speedtest_cache_timeout = 0          \* main.py:34, time.time() at import
  /\ cache_timeout \in CacheTimeouts
  /\ server = 0 /\ jitter = 0 /\ ping = 0
  /\ download_speed = 0 /\ upload_speed = 0 /\ status = 0
  /\ pc = [t \in Threads |-> "idle"]
  /\ proc = [t \in Threads |-> NoProc]
  /\ r = [t \in Threads |-> Zero]
  /\ seen = [t \in Threads |-> -1]
  /\ epoch = 0
  /\ requests = 0
  /\ probes = 0
  /\ failedAt = -1
  /\ checkedAt = [t \in Threads |-> -1]

ghostVars == <<epoch, requests, probes, failedAt, checkedAt>>

\* ---------------------------------------------------------------- actions
\* The wall clock advances.
Tick ==
  /\ clock < MaxTime
  /\ clock' = clock + 1
  /\ UNCHANGED <<speedtest_cache_timeout, cache_timeout, gauges, pc, proc, r,
                 seen, ghostVars>>

\* A scrape request reaches record_speedtest (main.py:101-107).
Request(t) ==
  /\ pc[t] = "idle"
  /\ requests < MaxRequests
  /\ requests' = requests + 1
  /\ pc' = [pc EXCEPT ![t] = "check"]
  /\ seen' = [seen EXCEPT ![t] = -1]
  /\ UNCHANGED <<clock, speedtest_cache_timeout, cache_timeout, gauges, proc, r,
                 epoch, probes, failedAt, checkedAt>>

\* main.py:109-110: the expiry test; when expired, run_speedtest is called
\* and the subprocess is started.
Check(t) ==
  /\ pc[t] = "check"
  /\ IF Expired(clock, speedtest_cache_timeout)
     THEN /\ pc' = [pc EXCEPT ![t] = "run"]
          /\ seen' = [seen EXCEPT ![t] = epoch]
          /\ probes' = probes + 1
          /\ checkedAt' = [checkedAt EXCEPT ![t] = clock]
     ELSE /\ pc' = [pc EXCEPT ![t] = "respond"]
          /\ UNCHANGED <<seen, probes, checkedAt>>
  /\ UNCHANGED <<clock, speedtest_cache_timeout, cache_timeout, gauges, proc, r,
                 epoch, requests, failedAt>>

\* main.py:69: the subprocess ends (exit 0, non-zero exit, or the run timeout).
ProcessEndsWith(t, endings) ==
  /\ pc[t] = "run"
  /\ \E p \in endings : proc' = [proc EXCEPT ![t] = p]
  /\ pc' = [pc EXCEPT ![t] = "parse"]
  /\ UNCHANGED <<clock, speedtest_cache_timeout, cache_timeout, gauges, r, seen,
                 ghostVars>>

ProcessEnds(t) == ProcessEndsWith(t, Procs)

\* run_speedtest that starts the tool again when it got no result.
ProbeReturnsOrRetries(t) ==
  /\ pc[t] = "parse"
  /\ ~run_speedtest(proc[t]).raised
  /\ IF run_speedtest(proc[t]).value[6] = 0
     THEN /\ pc' = [pc EXCEPT ![t] = "run"]
          /\ probes' = probes + 1
          /\ UNCHANGED r
     ELSE /\ pc' = [pc EXCEPT ![t] = "set_server"]
          /\ r' = [r EXCEPT ![t] = run_speedtest(proc[t]).value]
          /\ UNCHANGED probes
  /\ failedAt' = IF run_speedtest(proc[t]).value[6] = 0 THEN clock ELSE -1
  /\ proc' = [proc EXCEPT ![t] = NoProc]
  /\ UNCHANGED <<clock, speedtest_cache_timeout, cache_timeout, gauges, seen,
                 epoch, requests, checkedAt>>

\* main.py:68-98 and 110: run_speedtest handles the ending and returns its
\* tuple to record_speedtest.
ProbeReturns(t) ==
  /\ pc[t] = "parse"
  /\ ~run_speedtest(proc[t]).raised
  /\ r' = [r EXCEPT ![t] = run_speedtest(proc[t]).value]
  /\ failedAt' = IF run_speedtest(proc[t]).value[6] = 0 THEN clock ELSE -1
  /\ proc' = [proc EXCEPT ![t] = NoProc]
  /\ pc' = [pc EXCEPT ![t] = "set_server"]
  /\ UNCHANGED <<clock, speedtest_cache_timeout, cache_timeout, gauges, seen,
                 epoch, requests, probes, checkedAt>>

\* main.py:68-98 and 110: run_speedtest raises; nothing in record_speedtest
\* catches it, so the request ends (Flask answers 500) with the gauges and
\* the deadline untouched.
ProbeRaises(t) ==
  /\ pc[t] = "parse"
  /\ run_speedtest(proc[t]).raised
  /\ failedAt' = clock
  /\ proc' = [proc EXCEPT ![t] = NoProc]
  /\ pc' = [pc EXCEPT ![t] = "idle"]
  /\ checkedAt' = [checkedAt EXCEPT ![t] = -1]
  /\ UNCHANGED <<clock, speedtest_cache_timeout, cache_timeout, gauges, r, seen,
                 epoch, requests, probes>>

\* main.py:113
SetServer(t) ==
  /\ pc[t] = "set_server"
  /\ server' = r[t][1]
  /\ pc' = [pc EXCEPT ![t] = "set_jitter"]
  /\ UNCHANGED <<clock, speedtest_cache_timeout, cache_timeout, jitter, ping,
                 download_speed, upload_speed, status, proc, r, seen, ghostVars>>

\* main.py:114
SetJitter(t) ==
  /\ pc[t] = "set_jitter"
  /\ jitter' = r[t][2]
  /\ pc' = [pc EXCEPT ![t] = "set_ping"]
  /\ UNCHANGED <<clock, speedtest_cache_timeout, cache_timeout, server, ping,
                 download_speed, upload_speed, status, proc, r, seen, ghostVars>>

\* main.py:115
SetPing(t) ==
  /\ pc[t] = "set_ping"
  /\ ping' = r[t][3]
  /\ pc' = [pc EXCEPT ![t] = "set_download"]
  /\ UNCHANGED <<clock, speedtest_cache_timeout, cache_timeout, server, jitter,
                 download_speed, upload_speed, status, proc, r, seen, ghostVars>>

\* main.py:116
SetDownload(t) ==
  /\ pc[t] = "set_download"
  /\ download_speed' = r[t][4]
  /\ pc' = [pc EXCEPT ![t] = "set_upload"]
  /\ UNCHANGED <<clock, speedtest_cache_timeout, cache_timeout, server, jitter,
                 ping, upload_speed, status, proc, r, seen, ghostVars>>

\* main.py:117
SetUpload(t) ==
  /\ pc[t] = "set_upload"
  /\ upload_speed' = r[t][5]
  /\ pc' = [pc EXCEPT ![t] = "set_status"]
  /\ UNCHANGED <<clock, speedtest_cache_timeout, cache_timeout, server, jitter,
                 ping, download_speed, status, proc, r, seen, ghostVars>>

\* main.py:118
SetStatus(t) ==
  /\ pc[t] = "set_status"
  /\ status' = r[t][6]
  /\ pc' = [pc EXCEPT ![t] = "set_timeout"]
  /\ UNCHANGED <<clock, speedtest_cache_timeout, cache_timeout, server, jitter,
                 ping, download_speed, upload_speed, proc, r, seen, ghostVars>>

\* The deadline computed from the time of the expiry test of line 109.
NewDeadlineFromCheck(t) == checkedAt[t] + cache_timeout

\* main.py:120: time.time() + cache_timeout, a second reading of the clock,
\* taken after the probe has returned and the gauges are set.
NewDeadline(t) == clock + cache_timeout

\* main.py:120
SetCacheTimeout(t) ==
  /\ pc[t] = "set_timeout"
  /\ speedtest_cache_timeout' = NewDeadline(t)
  /\ epoch' = epoch + 1
  /\ pc' = [pc EXCEPT ![t] = "respond"]
  /\ UNCHANGED <<clock, cache_timeout, gauges, proc, r, seen, requests, probes,
                 failedAt, checkedAt>>

\* main.py:122: the response is rendered from the registry.
Respond(t) ==
  /\ pc[t] = "respond"
  /\ pc' = [pc EXCEPT ![t] = "idle"]
  /\ r' = [r EXCEPT ![t] = Zero]
  /\ checkedAt' = [checkedAt EXCEPT ![t] = -1]
  /\ UNCHANGED <<clock, speedtest_cache_timeout, cache_timeout, gauges, proc,
                 seen, epoch, requests, probes, failedAt>>

Step(t) ==
  \/ Request(t)
  \/ Check(t)
  \/ ProcessEnds(t)
  \/ ProbeReturns(t)
  \/ ProbeRaises(t)
  \/ SetServer(t)
  \/ SetJitter(t)
  \/ SetPing(t)
  \/ SetDownload(t)
  \/ SetUpload(t)
  \/ SetStatus(t)
  \/ SetCacheTimeout(t)
  \/ Respond(t)

Next == Tick \/ \E t \in Threads : Step(t)

Spec == Init /\ [][Next]_vars

\* Sequential runs: a request is taken only when no other is in progress.
Alone(t) == \A u \in Threads \ {t} : pc[u] = "idle"
SeqStep(t) ==
  \/ Alone(t) /\ Request(t)
  \/ Alone(t) /\ Check(t)
  \/ Alone(t) /\ ProcessEnds(t)
  \/ Alone(t) /\ ProbeReturns(t)
  \/ Alone(t) /\ ProbeRaises(t)
  \/ Alone(t) /\ SetServer(t)
  \/ Alone(t) /\ SetJitter(t)
  \/ Alone(t) /\ SetPing(t)
  \/ Alone(t) /\ SetDownload(t)
  \/ Alone(t) /\ SetUpload(t)
  \/ Alone(t) /\ SetStatus(t)
  \/ Alone(t) /\ SetCacheTimeout(t)
  \/ Alone(t) /\ Respond(t)

SeqNext == Tick \/ \E t \in Threads : SeqStep(t)

SeqSpec == Init /\ [][SeqNext]_vars

\* ------------------------------------------------------------------ claims
\* Positions of record_speedtest between the expiry test and the write of the
\* deadline: the request is refreshing.
Refreshing == {"run", "parse", "set_server", "set_jitter", "set_ping",
               "set_download", "set_upload", "set_status", "set_timeout"}

\* The step in which handler t leaves position p.
Leaves(t, p) == pc[t] = p /\ pc'[t] # p

\* C1: when the subprocess exceeds the run timeout, run_speedtest returns the
\* all-zero tuple to record_speedtest, which goes on to set the gauges.
C1_TimeoutReturnsFailure ==
  [][\A t \in Threads :
       (Leaves(t, "parse") /\ proc[t].how = "timeout")
         => (pc'[t] = "set_server" /\ r'[t] = Zero)]_vars

\* C2: no two concurrent requests run a probe for the same expiry of the
\* deadline (the same refresh generation).
C2_OneProbePerExpiry ==
  \A t, u \in Threads :
    (t # u /\ pc[t] \in Refreshing /\ pc[u] \in Refreshing) => seen[t] # seen[u]

\* C3: the expiry test is inclusive: evaluated at now = deadline it starts a
\* probe, evaluated at now = deadline - 1 it does not.
C3_InclusiveExpiry ==
  [][\A t \in Threads :
       Leaves(t, "check") =>
         /\ (clock = speedtest_cache_timeout => pc'[t] = "run")
         /\ (clock = speedtest_cache_timeout - 1 => pc'[t] = "respond")]_vars

\* C4: in a sequential run with ttl > 0, once a refresh has set the deadline,
\* nothing that happens strictly before the deadline, and no step of a request
\* that was served from the cache, starts a probe or changes the gauges or the
\* deadline.
InWindow ==
  /\ cache_timeout > 0
  /\ epoch >= 1
  /\ \/ clock < speedtest_cache_timeout
     \/ \E t \in Threads : pc[t] = "respond" /\ seen[t] = -1
C4_CachedInsideWindow ==
  [][InWindow => /\ probes' = probes
                 /\ gauges' = gauges
                 /\ speedtest_cache_timeout' = speedtest_cache_timeout]_vars

\* C4 witness: the second of two requests is answered from the cache of a
\* successful probe, before the deadline.
C4_Witness ==
  /\ cache_timeout > 0 /\ epoch = 1 /\ requests = 2 /\ probes = 1
  /\ clock < speedtest_cache_timeout
  /\ status = 1
  /\ \E t \in Threads : pc[t] = "respond" /\ seen[t] = -1

\* C5: sequentially, once a refresh attempt is over the gauges hold its result:
\* the tuple it returned, and status is 0 exactly when the latest attempt failed.
Quiet == \A t \in Threads : pc[t] = "idle"
C5_GaugesHoldLastProbe ==
  /\ \A t \in Threads : (pc[t] = "respond" /\ seen[t] # -1) => gauges = r[t]
  /\ (Quiet /\ probes > 0) => (status = 0 <=> failedAt # -1)
  /\ (Quiet /\ failedAt # -1) => gauges = Zero

\* C6: after a probe failed at time f, no probe starts before f + ttl.
C6_NoRetryBeforeDeadline ==
  [][\A t \in Threads :
       (pc[t] = "check" /\ pc'[t] = "run" /\ failedAt # -1)
         => clock >= failedAt + cache_timeout]_vars

\* C7: whenever a request is about to render the registry, the six gauges
\* are the initial values or the tuple of one probe.
ProbeResults == {run_speedtest(p).value : p \in Procs}
C7_NoTornRead ==
  \A t \in Threads : pc[t] = "respond" => gauges \in ProbeResults \cup {Zero}

\* C8: the first request after start runs a probe, whenever it arrives.
C8_FirstRequestProbes ==
  \A t \in Threads : (requests = 1 /\ pc[t] = "respond") => seen[t] # -1

\* C9: with ttl <= 0 every request runs a probe.
C9_NoCachingWhenTtlNotPositive ==
  cache_timeout <= 0 => \A t \in Threads : pc[t] = "respond" => seen[t] # -1

\* C10: for an output that is not JSON, has an error field, is a log event or
\* is any other JSON that is not a result event, run_speedtest returns the
\* all-zero tuple and raises nothing.
IsResultEvent(o) ==
  o.valid /\ o.kind = "dict" /\ "type" \in o.members /\ o.type = "result"
C10_NonResultReturnsFailure ==
  [][\A t \in Threads :
       (Leaves(t, "parse") /\ proc[t].how # "timeout"
          /\ (~IsResultEvent(proc[t].out) \/ "error" \in proc[t].out.members))
         => (pc'[t] = "set_server" /\ r'[t] = Zero)]_vars

\* ------------------------------------------- run_speedtest on more outputs
\* Result events over a wider range of values, among them the event
\* server 1234, jitter 1.5, latency 10.2 (in tenths of a millisecond),
\* download.bandwidth 12500000, upload.bandwidth 1250000.
ParseResults ==
  {Out(TRUE, "dict", ResultKeys, "result", <<s, j, l, d, u>>) :
     s \in {1, 1234}, j \in {0, 15}, l \in {2, 102},
     d \in {0, 3, 12500000}, u \in {1, 1250000}}
ParseProcs ==
  {[how |-> h, out |-> o] : h \in {"exit0", "nonzero"}, o \in Outputs \cup ParseResults}
    \cup {[how |-> "timeout", out |-> NotJsonText]}

\* The first request has found the deadline expired and has started the
\* speedtest subprocess.
ParseInit ==
  /\ clock \in 1..MaxTime
  /\ speedtest_cache_timeout = 0
  /\ cache_timeout \in CacheTimeouts
  /\ server = 0 /\ jitter = 0 /\ ping = 0
  /\ download_speed = 0 /\ upload_speed = 0 /\ status = 0
  /\ \E t \in Threads :
       /\ pc = [u \in Threads |-> IF u = t THEN "run" ELSE "idle"]
       /\ seen = [u \in Threads |-> IF u = t THEN 0 ELSE -1]
       /\ \E c \in 1..clock : checkedAt = [u \in Threads |-> IF u = t THEN c ELSE -1]
  /\ proc = [t \in Threads |-> NoProc]
  /\ r = [t \in Threads |-> Zero]
  /\ epoch = 0
  /\ requests = 1
  /\ probes = 1
  /\ failedAt = -1

\* The subprocess ends with any of ParseProcs and run_speedtest handles it.
ParseProcessEnds(t) == ProcessEndsWith(t, ParseProcs)

ParseNext ==
  \E t \in Threads : ParseProcessEnds(t) \/ ProbeReturns(t) \/ ProbeRaises(t)

ParseSpec == ParseInit /\ [][ParseNext]_vars

\* C11: for every valid result event run_speedtest returns server id, jitter
\* and latency as given, 8 times download.bandwidth, 8 times upload.bandwidth
\* and status 1.
ValidResultEvent(o) ==
  /\ IsResultEvent(o)
  /\ "error" \notin o.members
  /\ {"server", "ping", "download", "upload"} \subseteq o.members
C11_ResultTimesEight ==
  [][\A t \in Threads :
       (Leaves(t, "parse") /\ proc[t].how # "timeout" /\ ValidResultEvent(proc[t].out))
         => /\ pc'[t] = "set_server"
            /\ r'[t] = <<proc[t].out.res[1], proc[t].out.res[2], proc[t].out.res[3],
                         8 * proc[t].out.res[4], 8 * proc[t].out.res[5], 1>>]_vars

\* C11 witness: bandwidths 12500000 and 1250000 have come back as 100000000
\* and 10000000 bits per second.
C11_Witness ==
  \E t \in Threads :
    pc[t] = "set_server" /\ r[t] = <<1234, 15, 102, 100000000, 10000000, 1>>

InProbe == {t \in Threads : pc[t] \in {"run", "parse"}}
C13_OneProbeInFlight == Cardinality(InProbe) <= 1

\* C14: when the tool ends within the timeout, what run_speedtest returns or
\* raises is decided by the captured output alone: a non-zero exit gives what
\* exit 0 gives for the same output.
C14_ExitStatusIgnored ==
  [][\A t \in Threads :
       (Leaves(t, "parse") /\ proc[t].how # "timeout")
         => LET byOutput == run_speedtest([how |-> "exit0", out |-> proc[t].out])
            IN  IF byOutput.raised
                THEN pc'[t] = "idle"
                ELSE pc'[t] = "set_server" /\ r'[t] = byOutput.value]_vars

\* C14 witness: the tool has ended with a non-zero exit and a valid result
\* event, for which run_speedtest gives a success tuple.
C14_Witness ==
  \E t \in Threads :
    /\ pc[t] = "parse" /\ proc[t].how = "nonzero"
    /\ ValidResultEvent(proc[t].out)
    /\ ~run_speedtest(proc[t]).raised
    /\ run_speedtest(proc[t]).value[6] = 1

\* C15: a request starts the tool at most once, whatever comes back, so the
\* probe invocations never outnumber the scrape requests.
C15_ProbesAtMostRequests ==
  /\ probes <= requests
  /\ Cardinality({t \in Threads : pc[t] \in Refreshing}) <= probes

\* C15 witness: two requests have each run one probe, and the one that got a
\* failure tuple is about to answer without having started the tool again.
C15_Witness ==
  /\ requests = 2 /\ probes = 2 /\ failedAt # -1
  /\ \E t \in Threads : pc[t] = "respond" /\ seen[t] # -1 /\ r[t] = Zero

Writing == {"set_server", "set_jitter", "set_ping", "set_download",
            "set_upload", "set_status"}
C17_SentinelConsistent ==
  (\A t \in Threads : pc[t] \notin Writing)
    => (status = 0 => gauges = Zero)

====
